---- MODULE Spec2Model ----
(***************************************************************************)
(* Movement approval workflow of the asset movement tracking system:       *)
(* the request handlers of movements/views.py over the persisted           *)
(* BulkMovement, Movement, MovementAcknowledgement and ActivityLog rows,   *)
(* with the asset form, the admin site and the user synchronisation that   *)
(* write the Asset, ActivityLog and User rows the workflow reads.          *)
(***************************************************************************)
EXTENDS Integers, Sequences, FiniteSets, TLC

\* ------------------------------------------------------------------ bounds
MaxBulk == 1        \* BulkMovement rows that may be created
MaxLog == 3         \* ActivityLog rows that may be created
MaxMov == 1         \* Movement rows that may be created
NReq == 2           \* bulk update requests served concurrently, one per worker
MaxStock == 2       \* StockTake rows that may be created

VARIABLES
    bulk,       \* BulkMovement table: sequence of rows, pk = index
    mov,        \* Movement table: sequence of rows, pk = index
    acks,       \* MovementAcknowledgement table: set of rows
    log,        \* ActivityLog table, in insertion order
    resp,       \* the last request handled and the response it got
    req,        \* the concurrent requests, one per worker
    users,      \* accounts.User table: username -> row
    asset,      \* assets.Asset table: id -> status
    stock       \* StockTake table: sequence of rows, pk = index

vars == <<bulk, mov, acks, log, resp, req, users, asset, stock>>

\* ------------------------------------------------------------------ users
\* a null column (a null key is 0)
None == "none"

\* accounts.User rows: an operator, an administrator by role alone, and an
\* administrator who also carries the Django superuser flag
Users == {"olga", "amir", "root"}

\* the choices declared for the role column
ROLE_CHOICES == {"viewer", "operator", "approver", "admin"}

\* the User rows the workflow starts with
InitialUsers ==
    [u \in Users |->
        [role |-> IF u = "olga" THEN "operator" ELSE "admin",
         is_superuser |-> u = "root"]]

role(u) == users[u].role

is_superuser(u) == users[u].is_superuser

is_asset_admin(u) == role(u) = "admin" \/ is_superuser(u)

is_movement_approver(u) == role(u) \in {"admin", "approver"} \/ is_superuser(u)

is_asset_operator(u) == role(u) \in {"admin", "approver", "operator"} \/ is_superuser(u)

is_viewer_only(u) == role(u) = "viewer" /\ ~is_superuser(u)

\* ---------------------------------------------------------------- statuses
STATUS_CHOICES == {"pending", "in_transit", "completed", "delivered", "acknowledged", "cancelled"}

\* the status values a POST may carry: a choice of the field, or anything else
PostedStatuses == STATUS_CHOICES \cup {"bogus"}

\* the status values posted to the concurrent workers: an approval, a
\* cancellation and a return to pending
WorkerStatuses == {"pending", "completed", "cancelled"}

\* the status value posted beside the concurrent acknowledge requests
AcknowledgeStatuses == {"delivered"}

\* assets.Asset rows, by id
Assets == {1}

\* the ids a client may post in the assets field: also one that no Asset has
PostedAssets == Assets \cup {2}

\* Asset.STATUS_CHOICES, and the status of an asset saved without one
AssetStatuses == {"available", "in_transit", "in_use", "maintenance"}

DefaultAssetStatus == "available"

\* the status values the asset form may post: a choice, or none
PostedAssetStatuses == AssetStatuses \cup {""}

\* the role names the Business Platform sends, and those of the SSO provider
BpRoles == {"admin", "manager", "user", "guest"}

SsoRoles == {"administrator", "manager", "operator", "auditor"}

\* locations.Location rows, by id
HK == 1
SZ == 2

\* the key a posted id resolves to in Location.objects.get(id=...): the
\* integer the text denotes
LocationId(posted) ==
    CASE posted \in {"1", "01"} -> HK
      [] posted = "2" -> SZ

\* the (from_location, to_location) values the create form posts
LocationPairs == {<<"1", "2">>, <<"1", "1">>}

\* the values a client may post: also an id written with a leading zero
PostedLocationPairs == LocationPairs \cup {<<"1", "01">>}

\* ------------------------------------------------------------ ActivityLog
\* ActivityLog.log that drops the target of the entry
LogEntry_NoTarget(user, action_type, target_model, target_id) ==
    [user |-> user, action_type |-> action_type,
     target_model |-> None, target_id |-> 0]

\* ActivityLog.log(user, action_type, description, request, target_model, target_id)
LogEntry(user, action_type, target_model, target_id) ==
    [user |-> user, action_type |-> action_type,
     target_model |-> target_model, target_id |-> target_id]

\* the entry with what its description says about the assets:
\* description=description
DescribedEntry(entry, asset_count) ==
    [user |-> entry.user, action_type |-> entry.action_type,
     target_model |-> entry.target_model, target_id |-> entry.target_id,
     asset_count |-> asset_count]

\* the tracking number a row gets when it is first saved: unique per row
TrackingNumber(pk) == pk

\* the status of a row created without one
DefaultStatus == "pending"

Response(op, user, pk, status, result) ==
    [op |-> op, user |-> user, pk |-> pk, status |-> status, result |-> result]

NoResponse == Response(None, None, 0, None, None)

\* no row loaded
NoRow == [tracking_number |-> 0, from_location |-> 0, to_location |-> 0,
          assets |-> {}, initiated_by |-> None, approved_by |-> None, status |-> None]

\* a worker whose request has not arrived yet
Idle == [pc |-> "idle", user |-> None, pk |-> 0, instance |-> NoRow,
         old_status |-> None, result |-> None]

\* ------------------------------------------------- BulkMovementCreateView
BulkMovementCreate(user, asset_ids, from_location_id, to_location_id) ==
    IF asset_ids = {} \/ from_location_id = to_location_id
    THEN /\ resp' = Response("bulk_create", user, 0, None, "invalid")
         /\ UNCHANGED <<bulk, mov, acks, log, req, users, asset, stock>>
    ELSE /\ UNCHANGED <<mov, acks, req, users, asset, stock>>
         /\ Len(bulk) < MaxBulk
         /\ Len(log) < MaxLog
         /\ LET pk == Len(bulk) + 1
                bulk_movement == [tracking_number |-> TrackingNumber(pk),
                                  from_location |-> LocationId(from_location_id),
                                  to_location |-> LocationId(to_location_id),
                                  assets |-> asset_ids \cap Assets,
                                  initiated_by |-> user,
                                  approved_by |-> None,
                                  status |-> "pending"]
            IN /\ bulk' = Append(bulk, bulk_movement)
               /\ log' = Append(log, DescribedEntry(
                                        LogEntry(user, "bulk_movement_create",
                                                 "BulkMovement", bulk_movement.tracking_number),
                                        Cardinality(asset_ids)))
               /\ resp' = Response("bulk_create", user, pk, None, "ok")

\* the statements of the create block that may raise
CreateSteps == {"locations", "record", "assets", "log"}

\* what the statements before the one that raises have written: the row
\* without its assets once objects.create returned, the row with its assets
\* once assets.set returned
WrittenBefore(step, bulk_movement) ==
    CASE step \in {"locations", "record"} -> <<bulk, log>>
      [] step = "assets" -> <<Append(bulk, [bulk_movement EXCEPT !.assets = {}]), log>>
      [] step = "log" -> <<Append(bulk, bulk_movement), log>>

\* a block that keeps the writes made before the exception
transaction_atomic_Autocommit(before, written) == written

\* with transaction.atomic(): an exception leaving the block rolls back
\* every write made inside it
transaction_atomic(before, written) == before

\* post() when a statement inside the block raises: except Exception
BulkMovementCreateFails(user, asset_ids, from_location_id, to_location_id, step) ==
    /\ asset_ids # {}
    /\ from_location_id # to_location_id
    /\ Len(bulk) < MaxBulk
    /\ Len(log) < MaxLog
    /\ LET pk == Len(bulk) + 1
           bulk_movement == [tracking_number |-> TrackingNumber(pk),
                             from_location |-> LocationId(from_location_id),
                             to_location |-> LocationId(to_location_id),
                             assets |-> asset_ids \cap Assets,
                             initiated_by |-> user,
                             approved_by |-> None,
                             status |-> "pending"]
           outcome == transaction_atomic(<<bulk, log>>, WrittenBefore(step, bulk_movement))
       IN /\ bulk' = outcome[1]
          /\ log' = outcome[2]
          /\ resp' = Response("bulk_create", user, 0, None, "error")
    /\ UNCHANGED <<mov, acks, req, users, asset, stock>>

\* ------------------------------------------------- BulkMovementUpdateView
\* FormInstance of a form that is not bound to the loaded row
FormInstance_Unbound(object, new_status) ==
    [object EXCEPT !.status = new_status, !.tracking_number = 0, !.initiated_by = None]

\* ModelForm bound to the loaded row: the posted fields are written onto it
FormInstance(object, new_status) == [object EXCEPT !.status = new_status]

is_initiator(user, bulk_movement) == user = bulk_movement.initiated_by

\* is_approving with in_transit left out of the guarded statuses
is_approving_NoInTransit(new_status, old_status) ==
    new_status \in {"completed", "delivered"} /\ old_status = "pending"

is_approving(new_status, old_status) ==
    new_status \in {"completed", "delivered", "in_transit"} /\ old_status = "pending"

SelfApprovalRejected(user, bulk_movement, new_status) ==
    /\ is_initiator(user, bulk_movement)
    /\ is_approving(new_status, bulk_movement.status)
    /\ ~is_superuser(user)

\* RecordsApproval without the test that the status changes
RecordsApproval_AnySubmit(new_status, old_status) ==
    new_status \in {"completed", "delivered"}

RecordsApproval(new_status, old_status) ==
    new_status \in {"completed", "delivered"} /\ old_status # new_status

\* ApprovedInstance that records the approver for completed only
ApprovedInstance_CompletedOnly(instance, user, new_status, old_status) ==
    IF RecordsApproval(new_status, old_status) /\ new_status = "completed"
    THEN [instance EXCEPT !.approved_by = user]
    ELSE instance

\* the instance as form_valid leaves it before the save
ApprovedInstance(instance, user, new_status, old_status) ==
    IF RecordsApproval(new_status, old_status)
    THEN [instance EXCEPT !.approved_by = user]
    ELSE instance

\* the ActivityLog rows form_valid writes before the save
UpdateLogEntries(user, bulk_movement, new_status) ==
    LET old_status == bulk_movement.status
    IN IF RecordsApproval(new_status, old_status)
       THEN <<LogEntry(user, "bulk_movement_approve", "BulkMovement",
                       bulk_movement.tracking_number)>>
       ELSE IF new_status # old_status
       THEN <<LogEntry(user, "bulk_movement_update", "BulkMovement",
                       bulk_movement.tracking_number)>>
       ELSE <<>>

BulkMovementUpdate(user, pk, new_status) ==
    /\ pk \in DOMAIN bulk
    /\ UNCHANGED <<mov, acks, req, users, asset, stock>>
    /\ IF new_status \notin STATUS_CHOICES
       THEN /\ resp' = Response("bulk_update", user, pk, new_status, "invalid")
            /\ UNCHANGED <<bulk, log>>
       ELSE LET instance == FormInstance(bulk[pk], new_status)
                bulk_movement == bulk[pk]
                old_status == bulk_movement.status
                entries == UpdateLogEntries(user, bulk_movement, new_status)
            IN IF SelfApprovalRejected(user, bulk_movement, new_status)
               THEN /\ resp' = Response("bulk_update", user, pk, new_status, "rejected")
                    /\ UNCHANGED <<bulk, log>>
               ELSE /\ Len(log) + Len(entries) <= MaxLog
                    /\ log' = log \o entries
                    /\ bulk' = [bulk EXCEPT ![pk] =
                                    ApprovedInstance(instance, user, new_status, old_status)]
                    /\ resp' = Response("bulk_update", user, pk, new_status, "ok")

\* the save of the validated form fails in the database after form_valid has
\* written its ActivityLog rows (each statement commits on its own)
BulkMovementUpdateSaveFails(user, pk, new_status) ==
    /\ pk \in DOMAIN bulk
    /\ new_status \in STATUS_CHOICES
    /\ ~SelfApprovalRejected(user, bulk[pk], new_status)
    /\ LET entries == UpdateLogEntries(user, bulk[pk], new_status)
       IN /\ Len(log) + Len(entries) <= MaxLog
          /\ log' = log \o entries
    /\ resp' = Response("bulk_update", user, pk, new_status, "error")
    /\ UNCHANGED <<bulk, mov, acks, req, users, asset, stock>>

\* ----------------------------------- BulkMovementUpdateView, statement by statement
\* (each worker serves one request and keeps its response in req)
\* UpdateView.post: self.object = self.get_object(); the form is bound and cleaned
\* (a form that does not validate ends the request here, nothing written)
BulkUpdateLoad(r, user, pk, new_status) ==
    /\ req[r].pc = "idle"
    /\ pk \in DOMAIN bulk
    /\ new_status \in STATUS_CHOICES
    /\ req' = [req EXCEPT ![r] =
                 [Idle EXCEPT !.pc = "loaded", !.user = user, !.pk = pk,
                              !.instance = FormInstance(bulk[pk], new_status)]]
    /\ UNCHANGED <<bulk, mov, acks, log, resp, users, asset, stock>>

\* form_valid: bulk_movement = self.get_object() and the self-approval check
BulkUpdateCheck(r) ==
    /\ req[r].pc = "loaded"
    /\ LET bulk_movement == bulk[req[r].pk]
           new_status == req[r].instance.status
       IN IF SelfApprovalRejected(req[r].user, bulk_movement, new_status)
          THEN req' = [req EXCEPT ![r].pc = "done", ![r].result = "rejected"]
          ELSE req' = [req EXCEPT ![r].pc = "checked",
                                  ![r].old_status = bulk_movement.status]
    /\ UNCHANGED <<bulk, mov, acks, log, resp, users, asset, stock>>

\* form_valid: approved_by set on the form instance, ActivityLog.log
BulkUpdateLog(r) ==
    /\ req[r].pc = "checked"
    /\ LET new_status == req[r].instance.status
           bulk_movement == [req[r].instance EXCEPT !.status = req[r].old_status]
           entries == UpdateLogEntries(req[r].user, bulk_movement, new_status)
       IN /\ Len(log) + Len(entries) <= MaxLog
          /\ log' = log \o entries
          /\ req' = [req EXCEPT ![r].pc = "logged",
                                ![r].instance = ApprovedInstance(req[r].instance, req[r].user,
                                                                 new_status, req[r].old_status)]
    /\ UNCHANGED <<bulk, mov, acks, resp, users, asset, stock>>

\* super().form_valid(form): form.save() writes every column of the instance
BulkUpdateSave(r) ==
    /\ req[r].pc = "logged"
    /\ bulk' = [bulk EXCEPT ![req[r].pk] = req[r].instance]
    /\ req' = [req EXCEPT ![r].pc = "done", ![r].result = "ok"]
    /\ UNCHANGED <<mov, acks, log, resp, users, asset, stock>>

\* ----------------------------------------------------- MovementCreateView
MovementCreate(user, asset_id, from_location, to_location) ==
    /\ Len(mov) < MaxMov
    /\ LET pk == Len(mov) + 1
       IN /\ mov' = Append(mov, [tracking_number |-> TrackingNumber(pk),
                                 asset |-> asset_id,
                                 from_location |-> from_location,
                                 to_location |-> to_location,
                                 initiated_by |-> user,
                                 status |-> DefaultStatus])
          /\ resp' = Response("movement_create", user, pk, None, "ok")
    /\ UNCHANGED <<bulk, acks, log, req, users, asset, stock>>

\* ----------------------------------------------------- MovementUpdateView
MovementUpdate(user, pk, new_status) ==
    /\ pk \in DOMAIN mov
    /\ IF new_status \notin STATUS_CHOICES
       THEN /\ resp' = Response("movement_update", user, pk, new_status, "invalid")
            /\ UNCHANGED mov
       ELSE /\ mov' = [mov EXCEPT ![pk] = FormInstance(mov[pk], new_status)]
            /\ resp' = Response("movement_update", user, pk, new_status, "ok")
    /\ UNCHANGED <<bulk, acks, log, req, users, asset, stock>>

\* ------------------------------------------------ AcknowledgeMovementView
\* HasAcknowledgement with no uniqueness on the movement column
HasAcknowledgement_Never(pk) == FALSE

\* MovementAcknowledgement.movement is one-to-one: a second row is refused
HasAcknowledgement(pk) == \E a \in acks : a.movement = pk

AcknowledgeMovement(user, pk) ==
    /\ pk \in DOMAIN mov
    /\ IF HasAcknowledgement(pk)
       THEN /\ resp' = Response("acknowledge", user, pk, None, "error")
            /\ UNCHANGED <<mov, acks>>
       ELSE /\ acks' = acks \cup {[movement |-> pk, acknowledged_by |-> user]}
            /\ mov' = [mov EXCEPT ![pk].status = "completed"]
            /\ resp' = Response("acknowledge", user, pk, None, "ok")
    /\ UNCHANGED <<bulk, log, req, users, asset, stock>>

\* ----------------------------------------------------- CancelMovementView
CancelMovement(user, pk) ==
    /\ pk \in DOMAIN mov
    /\ mov' = [mov EXCEPT ![pk].status = "cancelled"]
    /\ resp' = Response("cancel", user, pk, None, "ok")
    /\ UNCHANGED <<bulk, acks, log, req, users, asset, stock>>

\* ------------------------- AcknowledgeMovementView, statement by statement
\* (each worker serves one request and keeps its response in req)
\* form_valid: movement = self.get_object(); the request keeps the row with
\* the status it is going to save (the assignment is local to the request);
\* requests take the workers in the order they arrive
AcknowledgeLoad(r, user, pk) ==
    /\ req[r].pc = "idle"
    /\ \A q \in 1..(r - 1) : req[q].pc # "idle"
    /\ pk \in DOMAIN mov
    /\ req' = [req EXCEPT ![r] = [Idle EXCEPT !.pc = "ack_loaded", !.user = user, !.pk = pk,
                                              !.instance = [mov[pk] EXCEPT !.status = "completed"]]]
    /\ UNCHANGED <<bulk, mov, acks, log, resp, users, asset, stock>>

\* MovementAcknowledgement.objects.create(...): the insert fails on a second
\* row for the movement and the exception ends the request
AcknowledgeCreate(r) ==
    /\ req[r].pc = "ack_loaded"
    /\ IF HasAcknowledgement(req[r].pk)
       THEN /\ req' = [req EXCEPT ![r].pc = "done", ![r].result = "error",
                                   ![r].instance = NoRow]
            /\ UNCHANGED acks
       ELSE /\ acks' = acks \cup {[movement |-> req[r].pk, acknowledged_by |-> req[r].user]}
            /\ req' = [req EXCEPT ![r].pc = "ack_created"]
    /\ UNCHANGED <<bulk, mov, log, resp, users, asset, stock>>

\* movement.status = 'completed'; movement.save() writes every column
AcknowledgeSave(r) ==
    /\ req[r].pc = "ack_created"
    /\ mov' = [mov EXCEPT ![req[r].pk] = req[r].instance]
    /\ req' = [req EXCEPT ![r] = [Idle EXCEPT !.pc = "done", !.result = "ok"]]
    /\ UNCHANGED <<bulk, acks, log, resp, users, asset, stock>>

\* -------------------------------------------------------- ActivityLogAdmin
\* the table l without its row i
RemoveAt(l, i) == SubSeq(l, 1, i - 1) \o SubSeq(l, i + 1, Len(l))

\* the change view: has_change_permission is False for everyone
ActivityLogAdminChange(user, i) ==
    /\ i \in DOMAIN log
    /\ resp' = Response("log_change", user, 0, None, "rejected")
    /\ UNCHANGED <<bulk, mov, acks, log, req, users, asset, stock>>

\* the delete view and the delete_selected action: has_delete_permission is
\* not overridden, so ModelAdmin asks for the delete permission, which the
\* superuser flag grants and no group holds
ActivityLogAdminDelete(user, i) ==
    /\ i \in DOMAIN log
    /\ IF is_superuser(user)
       THEN /\ log' = RemoveAt(log, i)
            /\ resp' = Response("log_delete", user, 0, None, "ok")
       ELSE /\ resp' = Response("log_delete", user, 0, None, "rejected")
            /\ UNCHANGED log
    /\ UNCHANGED <<bulk, mov, acks, req, users, asset, stock>>

\* --------------------------------------------------------- AssetUpdateView
\* AssetForm.clean_status
clean_status(status) == IF status = "" THEN DefaultAssetStatus ELSE status

\* AssetAdminRequiredMixin.test_func, then form_valid
AssetUpdate(user, asset_id, status) ==
    /\ asset_id \in DOMAIN asset
    /\ IF ~is_asset_admin(user)
       THEN /\ resp' = Response("asset_update", user, asset_id, status, "rejected")
            /\ UNCHANGED <<asset, log>>
       ELSE /\ Len(log) < MaxLog
            /\ asset' = [asset EXCEPT ![asset_id] = clean_status(status)]
            /\ log' = Append(log, LogEntry(user, "asset_update", "Asset", asset_id))
            /\ resp' = Response("asset_update", user, asset_id, status, "ok")
    /\ UNCHANGED <<bulk, mov, acks, req, users, stock>>

\* --------------------------------------------------------------- UserAdmin
\* the admin site lets a staff user with the change permission in; here the
\* superuser
\* make_viewer, make_operator, make_approver, make_admin
UserAdminMakeRole(user, u, new_role) ==
    /\ is_superuser(user)
    /\ new_role \in ROLE_CHOICES
    /\ users' = [users EXCEPT ![u].role = new_role]
    /\ UNCHANGED <<bulk, mov, acks, log, resp, req, asset, stock>>

\* the change form: the role, validated against the choices, and the
\* permission flags of the default UserAdmin fieldsets
UserAdminSaveModel(user, u, new_role, flag) ==
    /\ is_superuser(user)
    /\ new_role \in ROLE_CHOICES
    /\ users' = [users EXCEPT ![u] = [role |-> new_role, is_superuser |-> flag]]
    /\ UNCHANGED <<bulk, mov, acks, log, resp, req, asset, stock>>

\* ------------------------------------------- BusinessPlatformSSO.sync_user
\* role_mapping.get(bp_role, 'personnel')
BpRoleMapping(bp_role) ==
    CASE bp_role = "admin" -> "admin"
      [] bp_role = "manager" -> "location_manager"
      [] bp_role \in {"user", "staff"} -> "personnel"
      [] OTHER -> "personnel"

sync_user(u, bp_role) ==
    /\ users' = [users EXCEPT ![u] =
                    [role |-> BpRoleMapping(bp_role),
                     is_superuser |-> IF BpRoleMapping(bp_role) = "admin" THEN TRUE
                                      ELSE users[u].is_superuser]]
    /\ UNCHANGED <<bulk, mov, acks, log, resp, req, asset, stock>>

\* ------------------------ BusinessPlatformAuthBackend._sync_and_get_user
\* the same role table as sync_user; the superuser flag is not written
sync_and_get_user(u, bp_role) ==
    /\ users' = [users EXCEPT ![u].role = BpRoleMapping(bp_role)]
    /\ UNCHANGED <<bulk, mov, acks, log, resp, req, asset, stock>>

\* -------------------------------------- sso_handlers.populate_user_from_sso
\* role_mapping.get(sso_role.lower()): None when the name is not in the table
SsoRoleMapping(sso_role) ==
    CASE sso_role \in {"system_admin", "admin", "administrator", "sysadmin", "super_admin"}
           -> "admin"
      [] sso_role \in {"manager", "location_manager", "site_manager", "facility_manager",
                       "warehouse_manager"}
           -> "location_manager"
      [] sso_role \in {"user", "employee", "staff", "personnel", "worker", "operator"}
           -> "personnel"
      [] OTHER -> None

\* the mapped role of highest priority among the SSO roles, personnel if none
map_sso_role_to_app_role(sso_roles) ==
    IF \E sso_role \in sso_roles : SsoRoleMapping(sso_role) = "admin"
    THEN "admin"
    ELSE IF \E sso_role \in sso_roles : SsoRoleMapping(sso_role) = "location_manager"
    THEN "location_manager"
    ELSE "personnel"

populate_user_from_sso(u, sso_roles) ==
    /\ users' = [users EXCEPT ![u].role = map_sso_role_to_app_role(sso_roles)]
    /\ UNCHANGED <<bulk, mov, acks, log, resp, req, asset, stock>>

\* ---------------------------------------------------- StockTakeCreateView
\* the status of a stock take created without one
DefaultStockTakeStatus == "scheduled"

StockTakeCreate(user, location) ==
    /\ Len(stock) < MaxStock
    /\ stock' = Append(stock, [location |-> location, conducted_by |-> user,
                               status |-> DefaultStockTakeStatus])
    /\ resp' = Response("stock_take_create", user, Len(stock) + 1, None, "ok")
    /\ UNCHANGED <<bulk, mov, acks, log, req, users, asset>>

\* ----------------------------------------------------- StartStockTakeView
StartStockTake(user, pk) ==
    /\ pk \in DOMAIN stock
    /\ stock' = [stock EXCEPT ![pk].status = "in_progress"]
    /\ resp' = Response("stock_take_start", user, pk, None, "ok")
    /\ UNCHANGED <<bulk, mov, acks, log, req, users, asset>>

\* -------------------------------------------------- CompleteStockTakeView
CompleteStockTake(user, pk) ==
    /\ pk \in DOMAIN stock
    /\ stock' = [stock EXCEPT ![pk].status = "completed"]
    /\ resp' = Response("stock_take_complete", user, pk, None, "ok")
    /\ UNCHANGED <<bulk, mov, acks, log, req, users, asset>>

\* ------------------------------------------------------------------ system
Init ==
    /\ bulk = <<>>
    /\ mov = <<>>
    /\ acks = {}
    /\ log = <<>>
    /\ resp = NoResponse
    /\ req = [r \in 1..NReq |-> Idle]
    /\ users = InitialUsers
    /\ asset = [a \in Assets |-> DefaultAssetStatus]
    /\ stock = <<>>

Next ==
    \/ \E user \in Users, asset_ids \in SUBSET Assets, lt \in LocationPairs :
          BulkMovementCreate(user, asset_ids, lt[1], lt[2])
    \/ \E user \in Users, pk \in 1..MaxBulk, new_status \in PostedStatuses :
          BulkMovementUpdate(user, pk, new_status)

Spec == Init /\ [][Next]_vars

\* the bulk workflow with create requests that a client writes by hand
NextPosted ==
    \/ \E user \in Users, asset_ids \in SUBSET PostedAssets, lt \in PostedLocationPairs :
          BulkMovementCreate(user, asset_ids, lt[1], lt[2])
    \/ \E user \in Users, pk \in 1..MaxBulk, new_status \in PostedStatuses :
          BulkMovementUpdate(user, pk, new_status)

SpecPosted == Init /\ [][NextPosted]_vars

\* the bulk workflow with a database that may fail a save
NextFault ==
    \/ Next
    \/ \E user \in Users, pk \in 1..MaxBulk, new_status \in STATUS_CHOICES :
          BulkMovementUpdateSaveFails(user, pk, new_status)

SpecFault == Init /\ [][NextFault]_vars

\* the bulk workflow with a create block that may raise at any statement
NextCreateFault ==
    \/ Next
    \/ \E user \in Users, asset_ids \in SUBSET Assets, lt \in LocationPairs, step \in CreateSteps :
          BulkMovementCreateFails(user, asset_ids, lt[1], lt[2], step)

SpecCreateFault == Init /\ [][NextCreateFault]_vars

\* the stock take views
NextStockTake ==
    \/ \E user \in Users : StockTakeCreate(user, HK)
    \/ \E user \in Users, pk \in 1..MaxStock : StartStockTake(user, pk)
    \/ \E user \in Users, pk \in 1..MaxStock : CompleteStockTake(user, pk)

SpecStockTake == Init /\ [][NextStockTake]_vars

\* the single-movement views
NextMovement ==
    \/ \E user \in Users, asset_id \in Assets : MovementCreate(user, asset_id, HK, SZ)
    \/ \E user \in Users, pk \in 1..MaxMov, new_status \in PostedStatuses :
          MovementUpdate(user, pk, new_status)
    \/ \E user \in Users, pk \in 1..MaxMov : AcknowledgeMovement(user, pk)
    \/ \E user \in Users, pk \in 1..MaxMov : CancelMovement(user, pk)

SpecMovement == Init /\ [][NextMovement]_vars

\* the bulk workflow beside the admin site's ActivityLog pages
NextAdmin ==
    \/ Next
    \/ \E user \in Users, i \in 1..MaxLog : ActivityLogAdminChange(user, i)
    \/ \E user \in Users, i \in 1..MaxLog : ActivityLogAdminDelete(user, i)

SpecAdmin == Init /\ [][NextAdmin]_vars

\* the single-movement views beside the asset form
NextAsset ==
    \/ NextMovement
    \/ \E user \in Users, asset_id \in Assets, status \in PostedAssetStatuses :
          AssetUpdate(user, asset_id, status)

SpecAsset == Init /\ [][NextAsset]_vars

\* the operations that write the role and the superuser flag of a User row
NextAccounts ==
    \/ \E user, u \in Users, new_role \in ROLE_CHOICES : UserAdminMakeRole(user, u, new_role)
    \/ \E user, u \in Users, new_role \in ROLE_CHOICES, flag \in BOOLEAN :
          UserAdminSaveModel(user, u, new_role, flag)
    \/ \E u \in Users, bp_role \in BpRoles : sync_user(u, bp_role)
    \/ \E u \in Users, bp_role \in BpRoles : sync_and_get_user(u, bp_role)
    \/ \E u \in Users, sso_roles \in SUBSET SsoRoles : populate_user_from_sso(u, sso_roles)

SpecAccounts == Init /\ [][NextAccounts]_vars

\* acknowledge requests served by concurrent workers, beside status updates
NextAcknowledge ==
    \/ \E user \in Users, asset_id \in Assets : MovementCreate(user, asset_id, HK, SZ)
    \/ \E user \in Users, pk \in 1..MaxMov, new_status \in AcknowledgeStatuses :
          MovementUpdate(user, pk, new_status)
    \/ \E r \in 1..NReq, user \in Users, pk \in 1..MaxMov : AcknowledgeLoad(r, user, pk)
    \/ \E r \in 1..NReq : AcknowledgeCreate(r)
    \/ \E r \in 1..NReq : AcknowledgeSave(r)

SpecAcknowledge == Init /\ [][NextAcknowledge]_vars

\* bulk update requests served by concurrent workers
NextConcurrent ==
    \/ \E user \in Users, asset_ids \in SUBSET Assets, lt \in LocationPairs :
          BulkMovementCreate(user, asset_ids, lt[1], lt[2])
    \/ \E r \in 1..NReq, user \in Users, pk \in 1..MaxBulk, new_status \in WorkerStatuses :
          BulkUpdateLoad(r, user, pk, new_status)
    \/ \E r \in 1..NReq : BulkUpdateCheck(r)
    \/ \E r \in 1..NReq : BulkUpdateLog(r)
    \/ \E r \in 1..NReq : BulkUpdateSave(r)

SpecConcurrent == Init /\ [][NextConcurrent]_vars

\* ================================================================== claims
ApprovalStatuses == {"completed", "delivered", "in_transit"}
TerminalStatuses == {"completed", "acknowledged", "cancelled"}

\* the allowed-transition table of the workflow
AllowedTransition(old, new) ==
    \/ old = "pending" /\ new \in {"in_transit", "completed", "delivered"}
    \/ old = "in_transit" /\ new \in {"completed", "delivered"}
    \/ old = "delivered" /\ new = "acknowledged"
    \/ old \notin TerminalStatuses /\ new = "cancelled"

\* C1: in every reachable state the approved_by of a BulkMovement is not its
\* initiated_by, unless that user is an administrator (by role or superuser
\* flag), whatever statuses the record went through.
C1_ApproverIsNotInitiator ==
    \A pk \in DOMAIN bulk :
        bulk[pk].approved_by = bulk[pk].initiated_by => is_asset_admin(bulk[pk].initiated_by)

\* C2: a status update of a pending BulkMovement to completed, delivered or
\* in_transit by its initiator, who is no superuser, is rejected: the
\* BulkMovement table and the ActivityLog are left as they were.
C2_SelfApprovalRejected ==
    [][LET q == resp'
       IN (/\ q.op = "bulk_update"
           /\ q.pk \in DOMAIN bulk
           /\ bulk[q.pk].status = "pending"
           /\ q.status \in ApprovalStatuses
           /\ q.user = bulk[q.pk].initiated_by
           /\ ~is_superuser(q.user))
          => (q.result = "rejected" /\ bulk' = bulk /\ log' = log)]_vars

\* C2 witness: the initiator's approval of a still pending record was rejected
C2_Witness ==
    /\ resp.op = "bulk_update"
    /\ resp.result = "rejected"
    /\ resp.status \in ApprovalStatuses
    /\ resp.user = bulk[resp.pk].initiated_by
    /\ ~is_superuser(resp.user)
    /\ bulk[resp.pk].status = "pending"
    /\ bulk[resp.pk].approved_by = None

\* C3: no request on a single Movement lets its initiator, unless an
\* administrator, take it from pending to completed, delivered or in_transit.
C3_MovementSeparationOfDuties ==
    [][\A pk \in DOMAIN mov :
          (mov[pk].status = "pending" /\ mov'[pk].status \in ApprovalStatuses)
          => (resp'.user # mov[pk].initiated_by \/ is_asset_admin(resp'.user))]_vars

C5_OnlyAllowedTransitions ==
    [][/\ \A pk \in DOMAIN mov :
             mov'[pk].status # mov[pk].status
             => AllowedTransition(mov[pk].status, mov'[pk].status)
       /\ \A pk \in DOMAIN bulk :
             bulk'[pk].status # bulk[pk].status
             => AllowedTransition(bulk[pk].status, bulk'[pk].status)]_vars

\* C6: cancellation is possible from a non-terminal status only: a cancel
\* request on a Movement that is completed, acknowledged or cancelled leaves
\* its status as it was.
C6_CancelOnlyFromNonTerminal ==
    [][(/\ resp'.op = "cancel"
        /\ resp'.pk \in DOMAIN mov
        /\ mov[resp'.pk].status \in TerminalStatuses)
       => mov'[resp'.pk].status = mov[resp'.pk].status]_vars

\* C7: a request that read a BulkMovement as pending and asks for completed,
\* and that finds at its save that another request has meanwhile moved the
\* record out of pending, observes the conflict and changes nothing.
C7_LoserChangesNothing ==
    [][\A r \in 1..NReq :
          (/\ BulkUpdateSave(r)
           /\ req[r].old_status = "pending"
           /\ req[r].instance.status = "completed"
           /\ bulk[req[r].pk].status # "pending")
          => bulk' = bulk]_vars

\* C8: every request that creates a record or changes the status of one, or
\* that acknowledges a movement, appends exactly one ActivityLog entry.
C8_OneAuditEntryPerChange ==
    [][(mov' # mov \/ bulk' # bulk \/ acks' # acks)
       => (Len(log') = Len(log) + 1 /\ SubSeq(log', 1, Len(log)) = log)]_vars

\* C9: a bulk status update that does not succeed (rejected, invalid, or its
\* save failing) leaves the BulkMovement table unchanged and appends no
\* ActivityLog entry.
C9_NoAuditWithoutPersistedChange ==
    [][(resp'.op = "bulk_update" /\ resp'.result # "ok")
       => (bulk' = bulk /\ log' = log)]_vars

\* C10: a bulk status update that posts the status the record already has
\* succeeds, leaves status and approved_by as they were and appends no
\* ActivityLog entry.
C10_SameStatusIsNoOp ==
    [][LET q == resp'
       IN (/\ q.op = "bulk_update"
           /\ q.pk \in DOMAIN bulk
           /\ q.status = bulk[q.pk].status)
          => (/\ q.result = "ok"
              /\ bulk'[q.pk].status = bulk[q.pk].status
              /\ bulk'[q.pk].approved_by = bulk[q.pk].approved_by
              /\ log' = log)]_vars

\* C10 witness: completed was posted again, by a user other than the approver,
\* and the log still ends with the one approval
C10_Witness ==
    /\ resp.op = "bulk_update"
    /\ resp.result = "ok"
    /\ resp.status = "completed"
    /\ bulk[resp.pk].status = "completed"
    /\ bulk[resp.pk].approved_by \notin {None, resp.user}
    /\ Len(log) = 2
    /\ log[2].action_type = "bulk_movement_approve"
    /\ log[2].user = bulk[resp.pk].approved_by

\* the number of ActivityLog rows of table l whose target is the given record
AuditEntries(l, target_model, tracking_number) ==
    Cardinality({i \in DOMAIN l : /\ l[i].target_model = target_model
                                  /\ l[i].target_id = tracking_number})

\* C11: a movement, single or bulk, that is cancelled by the request right
\* after the one that created it has status cancelled, the tracking number it
\* was created with, and exactly two ActivityLog entries, whoever cancels.
C11_CreateThenCancel ==
    [][/\ (/\ resp.op = "movement_create" /\ resp.result = "ok"
           /\ resp'.op = "cancel" /\ resp'.pk = resp.pk)
          => (/\ resp'.result = "ok"
              /\ mov'[resp.pk].status = "cancelled"
              /\ mov'[resp.pk].tracking_number = mov[resp.pk].tracking_number
              /\ AuditEntries(log', "Movement", mov[resp.pk].tracking_number) = 2)
       /\ (/\ resp.op = "bulk_create" /\ resp.result = "ok"
           /\ resp'.op = "bulk_update" /\ resp'.status = "cancelled"
           /\ resp'.pk = resp.pk)
          => (/\ resp'.result = "ok"
              /\ bulk'[resp.pk].status = "cancelled"
              /\ bulk'[resp.pk].tracking_number = bulk[resp.pk].tracking_number
              /\ AuditEntries(log', "BulkMovement", bulk[resp.pk].tracking_number) = 2)]_vars

\* C12: an acknowledge request on a Movement whose status is not delivered
\* fails, creates no MovementAcknowledgement and leaves the status as it was.
C12_AcknowledgeOnlyDelivered ==
    [][(/\ resp'.op = "acknowledge"
        /\ resp'.pk \in DOMAIN mov
        /\ mov[resp'.pk].status # "delivered")
       => (/\ resp'.result # "ok"
           /\ acks' = acks
           /\ mov'[resp'.pk].status = mov[resp'.pk].status)]_vars

\* C13: a successful acknowledge of a delivered Movement creates exactly one
\* MovementAcknowledgement, by the acting user, and sets the status to
\* acknowledged.
C13_AcknowledgeSetsAcknowledged ==
    [][(/\ resp'.op = "acknowledge"
        /\ resp'.result = "ok"
        /\ resp'.pk \in DOMAIN mov
        /\ mov[resp'.pk].status = "delivered")
       => (/\ acks' = acks \cup {[movement |-> resp'.pk, acknowledged_by |-> resp'.user]}
           /\ Cardinality(acks') = Cardinality(acks) + 1
           /\ mov'[resp'.pk].status = "acknowledged")]_vars

\* C14: there is at most one MovementAcknowledgement per Movement, also when
\* acknowledge requests interleave; an acknowledge that finds one fails and
\* changes nothing, and only the request that inserted the acknowledgement
\* goes on to write the status.
C14_AcknowledgeAtMostOnce ==
    [][/\ \A pk \in DOMAIN mov' : Cardinality({a \in acks' : a.movement = pk}) <= 1
       /\ \A r \in 1..NReq :
             /\ (AcknowledgeCreate(r) /\ \E a \in acks : a.movement = req[r].pk)
                => (req'[r].result = "error" /\ req'[r].pc = "done"
                    /\ acks' = acks /\ mov' = mov)
             /\ AcknowledgeSave(r)
                => [movement |-> req[r].pk, acknowledged_by |-> req[r].user] \in acks]_vars

\* C14 witness: of two acknowledge requests for the same movement by different
\* users, one failed while the other had inserted its row and not yet saved
C14_Witness ==
    \E r1, r2 \in 1..NReq :
        /\ req[r1].pc = "ack_created"
        /\ req[r2].result = "error"
        /\ req[r2].pk = req[r1].pk
        /\ req[r2].user # req[r1].user
        /\ acks = {[movement |-> req[r1].pk, acknowledged_by |-> req[r1].user]}
        /\ mov[req[r1].pk].status = "delivered"

\* C15: a status update that takes a pending Movement or BulkMovement to
\* in_transit, completed or delivered, asked for by a user without the approve
\* capability, is rejected and leaves the status pending.
C15_ApproveCapabilityRequired ==
    [][LET q == resp'
       IN /\ (/\ q.op = "bulk_update"
              /\ q.pk \in DOMAIN bulk
              /\ bulk[q.pk].status = "pending"
              /\ q.status \in ApprovalStatuses
              /\ ~is_movement_approver(q.user))
             => (q.result = "rejected" /\ bulk'[q.pk].status = "pending")
          /\ (/\ q.op = "movement_update"
              /\ q.pk \in DOMAIN mov
              /\ mov[q.pk].status = "pending"
              /\ q.status \in ApprovalStatuses
              /\ ~is_movement_approver(q.user))
             => (q.result = "rejected" /\ mov'[q.pk].status = "pending")]_vars

\* C16: a bulk create request that selects no asset, or whose from_location
\* and to_location are the same Location, is rejected: no BulkMovement row and
\* no ActivityLog row is created.
C16_InvalidBulkCreateRejected ==
    [][\A user \in Users, asset_ids \in SUBSET Assets, lt \in PostedLocationPairs :
          (/\ BulkMovementCreate(user, asset_ids, lt[1], lt[2])
           /\ (asset_ids = {} \/ LocationId(lt[1]) = LocationId(lt[2])))
          => (bulk' = bulk /\ log' = log)]_vars

\* C17: the ActivityLog is append-only: every step leaves the rows it found
\* in place and unchanged, so the log extends the log of every earlier state.
C17_AuditLogAppendOnly ==
    [][/\ Len(log') >= Len(log)
       /\ SubSeq(log', 1, Len(log)) = log]_vars

\* the columns of a movement row that are fixed when it is created
CreationFields(row) ==
    [k \in DOMAIN row \ {"status", "approved_by"} |-> row[k]]

\* C18: no update, cancel or acknowledge request changes the asset(s),
\* from_location, to_location, initiated_by or tracking_number of a Movement
\* or BulkMovement that exists.
C18_CreationFieldsImmutable ==
    [][/\ \A pk \in DOMAIN mov : CreationFields(mov'[pk]) = CreationFields(mov[pk])
       /\ \A pk \in DOMAIN bulk : CreationFields(bulk'[pk]) = CreationFields(bulk[pk])]_vars

\* C18 witness: a Movement that was acknowledged and then updated to
\* delivered by a third user still has the columns it was created with
C18_Witness ==
    /\ resp.op = "movement_update"
    /\ resp.result = "ok"
    /\ mov[resp.pk].status = "delivered"
    /\ \E a \in acks : /\ a.movement = resp.pk
                       /\ a.acknowledged_by \notin {resp.user, mov[resp.pk].initiated_by}
    /\ mov[resp.pk].initiated_by # resp.user
    /\ CreationFields(mov[resp.pk]) =
          [tracking_number |-> TrackingNumber(resp.pk), asset |-> 1,
           from_location |-> HK, to_location |-> SZ,
           initiated_by |-> mov[resp.pk].initiated_by]

\* the most recent Movement of an asset
LatestMovement(asset_id) ==
    CHOOSE pk \in DOMAIN mov :
        /\ mov[pk].asset = asset_id
        /\ \A other \in DOMAIN mov : mov[other].asset = asset_id => other <= pk

\* C19: the status of an Asset follows its most recent Movement: while that
\* movement is in_transit the asset is in_transit.
C19_AssetStatusFollowsMovement ==
    \A asset_id \in Assets :
        (\E pk \in DOMAIN mov : mov[pk].asset = asset_id)
        => (mov[LatestMovement(asset_id)].status = "in_transit"
            => asset[asset_id] = "in_transit")

\* C20: for every User row the capabilities form the hierarchy: create for
\* operator, approver, admin or superuser; approve for approver, admin or
\* superuser; administer for admin or superuser; and is_viewer_only holds
\* exactly when none of the three does.
C20_CapabilityHierarchy ==
    \A u \in Users :
        /\ is_asset_operator(u) <=> (role(u) \in {"operator", "approver", "admin"} \/ is_superuser(u))
        /\ is_movement_approver(u) <=> (role(u) \in {"approver", "admin"} \/ is_superuser(u))
        /\ is_asset_admin(u) <=> (role(u) = "admin" \/ is_superuser(u))
        /\ is_asset_admin(u) => is_movement_approver(u)
        /\ is_movement_approver(u) => is_asset_operator(u)
        /\ is_viewer_only(u) <=>
              ~(is_asset_operator(u) \/ is_movement_approver(u) \/ is_asset_admin(u))

\* C21: the role of every User row is one of viewer, operator, approver,
\* admin, whatever operation created or synchronised the row.
C21_RoleInChoices ==
    \A u \in Users : role(u) \in ROLE_CHOICES

\* C22: a successful bulk create adds one BulkMovement row, pending, with
\* initiated_by the creating user and a tracking number no other row has, and
\* appends exactly one ActivityLog entry of kind bulk_movement_create by that
\* user whose target is the tracking number of the new row.
C22_BulkCreateEffect ==
    [][LET q == resp'
       IN (q.op = "bulk_create" /\ q.result = "ok")
          => (/\ Len(bulk') = Len(bulk) + 1
              /\ SubSeq(bulk', 1, Len(bulk)) = bulk
              /\ q.pk = Len(bulk')
              /\ bulk'[q.pk].status = "pending"
              /\ bulk'[q.pk].initiated_by = q.user
              /\ bulk'[q.pk].approved_by = None
              /\ bulk'[q.pk].tracking_number # 0
              /\ \A pk \in DOMAIN bulk :
                    bulk[pk].tracking_number # bulk'[q.pk].tracking_number
              /\ Len(log') = Len(log) + 1
              /\ SubSeq(log', 1, Len(log)) = log
              /\ log'[Len(log')].user = q.user
              /\ log'[Len(log')].action_type = "bulk_movement_create"
              /\ log'[Len(log')].target_model = "BulkMovement"
              /\ log'[Len(log')].target_id = bulk'[q.pk].tracking_number)]_vars

\* C22 witness: amir's create has just succeeded: one pending row of his and
\* one log entry for it
C22_Witness ==
    /\ resp.op = "bulk_create"
    /\ resp.result = "ok"
    /\ resp.user = "amir"
    /\ bulk[resp.pk].status = "pending"
    /\ bulk[resp.pk].initiated_by = "amir"
    /\ Len(log) = 1
    /\ log[1].action_type = "bulk_movement_create"
    /\ log[1].user = "amir"
    /\ log[1].target_id = bulk[resp.pk].tracking_number

\* C23: the entry written for a successful BulkMovement status change has
\* kind bulk_movement_approve exactly when the record leaves pending for
\* in_transit, completed or delivered, and bulk_movement_update otherwise.
C23_AuditKindOfStatusChange ==
    [][LET q == resp'
       IN (/\ q.op = "bulk_update"
           /\ q.result = "ok"
           /\ q.pk \in DOMAIN bulk
           /\ bulk'[q.pk].status # bulk[q.pk].status)
          => (/\ Len(log') = Len(log) + 1
              /\ log'[Len(log')].action_type =
                    IF bulk[q.pk].status = "pending" /\ q.status \in ApprovalStatuses
                    THEN "bulk_movement_approve"
                    ELSE "bulk_movement_update")]_vars

\* C24: a movement has status acknowledged only if an acknowledgement row
\* exists for it, an acknowledgement row is only created for a movement that
\* was delivered at that moment, and the plain update form never produces
\* the status acknowledged
C24_AcknowledgedOnlyByAcknowledge ==
    [][/\ \A pk \in DOMAIN mov' :
              mov'[pk].status = "acknowledged" => \E a \in acks' : a.movement = pk
       /\ \A a \in acks' \ acks : mov[a.movement].status = "delivered"
       /\ LET q == resp'
          IN (q.op = "movement_update" /\ q.result = "ok" /\ q.pk \in DOMAIN mov
              /\ mov[q.pk].status # "acknowledged")
                 => mov'[q.pk].status # "acknowledged"]_vars

\* C25: the initiator of a pending bulk movement moves it to in_transit,
\* completed or delivered exactly when that initiator holds the administer
\* capability (role admin or superuser)
C25_AdminOverride ==
    [][LET q == resp'
       IN (/\ q.op = "bulk_update"
           /\ q.pk \in DOMAIN bulk
           /\ q.status \in ApprovalStatuses
           /\ bulk[q.pk].status = "pending"
           /\ q.user = bulk[q.pk].initiated_by)
              => /\ is_asset_admin(q.user) => (q.result = "ok" /\ bulk'[q.pk].status = q.status)
                 /\ ~is_asset_admin(q.user) => (q.result = "rejected" /\ bulk'[q.pk] = bulk[q.pk])]_vars

\* C26: the status transition is an atomic read-modify-write: the save of a
\* request overwrites the status only if the row still holds the status the
\* request read, and leaves in approved_by either what is committed or the
\* approval of this very request, never the value it loaded earlier
C26_NoStaleOverwrite ==
    [][\A r \in 1..NReq :
          BulkUpdateSave(r)
          => LET pk == req[r].pk
             IN /\ bulk[pk].status # req[r].old_status => bulk'[pk].status = bulk[pk].status
                /\ bulk'[pk].approved_by \in {bulk[pk].approved_by, req[r].user}]_vars

\* C27: whatever the interleaving of requests, a bulk movement in status
\* completed or delivered has an approver, and a bulk movement only gets an
\* approver in a step that leaves it completed or delivered
C27_ApproverIffCompleted ==
    [][\A pk \in DOMAIN bulk' :
          /\ bulk'[pk].status \in {"completed", "delivered"} => bulk'[pk].approved_by # None
          /\ (pk \in DOMAIN bulk /\ bulk[pk].approved_by = None /\ bulk'[pk].approved_by # None)
                => bulk'[pk].status \in {"completed", "delivered"}]_vars

\* C28: creating a bulk movement is all-or-nothing: a create request that
\* does not succeed leaves neither a row nor an audit entry behind, and one
\* that succeeds leaves both, the entry naming the new row
C28_CreateAllOrNothing ==
    [][LET q == resp'
       IN q.op = "bulk_create"
          => IF q.result = "ok"
             THEN /\ Len(bulk') = Len(bulk) + 1
                  /\ Len(log') = Len(log) + 1
                  /\ log'[Len(log')].action_type = "bulk_movement_create"
                  /\ log'[Len(log')].target_id = bulk'[Len(bulk')].tracking_number
             ELSE bulk' = bulk /\ log' = log]_vars

\* a create request ended in the except branch and the tables are empty
C28_Witness ==
    /\ resp.op = "bulk_create"
    /\ resp.result = "error"
    /\ bulk = <<>>
    /\ log = <<>>

\* C29: every bulk movement references at least one asset, and the asset
\* count in its bulk_movement_create audit entry is the number of assets
\* attached to it, also when some of the posted ids belong to no asset
C29_AssetCountMatches ==
    \A pk \in DOMAIN bulk :
       /\ bulk[pk].assets # {}
       /\ \A i \in DOMAIN log :
             (/\ log[i].action_type = "bulk_movement_create"
              /\ log[i].target_id = bulk[pk].tracking_number)
             => log[i].asset_count = Cardinality(bulk[pk].assets)

\* C30: the status of a stock take only moves scheduled -> in_progress ->
\* completed: starting changes only a scheduled one, completing only one in
\* progress, and a completed one never returns to in_progress
C30_StockTakeOnlyForward ==
    [][\A pk \in DOMAIN stock :
          stock'[pk].status # stock[pk].status
          => <<stock[pk].status, stock'[pk].status>>
                \in {<<"scheduled", "in_progress">>, <<"in_progress", "completed">>}]_vars
====
